---------------------------- MODULE Spec2Model ----------------------------
(***************************************************************************)
(* The LEDP servers of led-meter: the common dispatch loop (server.h) and  *)
(* the three backends built on it (sysfs-leds, wiimote, airos).  Each      *)
(* backend is its own executable; `backend` says which one is running.     *)
(*                                                                         *)
(* A 32-bit word (uint32_t mask/values, int leds, 1 << i) is modelled as   *)
(* the set of its set bit positions, a subset of 0..31: & is \cap, | is    *)
(* \cup, ~ is the complement in 0..31 and 1 << i is {i}.                   *)
(***************************************************************************)
EXTENDS Integers, Sequences, FiniteSets, TLC

VARIABLES
  backend,        \* which executable runs: "sysfs", "wiimote" or "airos"
  host,           \* byte order of the machine: "little" or "big"
  pc,             \* position of main
  exit_status,    \* "none" while running, "1" or "0" as main returned, "SIGABRT" after a failed assert
  setup_failed,   \* which setup call the system failed, "none" if none (kept by the model)
  stderr,         \* the messages printed to stderr, as tags
  lednames,       \* sysfs: scandir's result, the d_name of every entry
  led,            \* sysfs: main's loop index into lednames (0-based)
  entries,        \* sysfs: data.entries[0..entries_count-1], 1-based here
  entries_count,  \* sysfs: data.entries_count
  entries_found,  \* sysfs: data.entries_found
  leds,           \* wiimote: data.leds, the shadow register
  closed,         \* what has been released of the socket ("sock") and the backend's handles ("device")
  delivered,      \* every outcome of recv so far: [len, bytes]
  handled,        \* every call of the handler so far: [packet, at, before, completed]
  writes          \* every device write so far, one record per write/cwiid_set_led call

vars == <<backend, host, pc, exit_status, setup_failed, stderr, lednames, led,
          entries, entries_count, entries_found, leds, closed, delivered, handled, writes>>

---------------------------------------------------------------------------
(* Bounds of the model *)

\* how many recv calls return before the model stops receiving
MaxDatagrams == 2

---------------------------------------------------------------------------
(* Words and bytes *)

Bits32 == 0..31

PROTOCOL_VERSION == 1

\* the bits set in the byte b (0..255)
BitsOfByte(b) == {j \in 0..7 : (b \div (2^j)) % 2 = 1}

\* *(uint32_t*)(mem + off) as the host reads it: mem is 1-based, off is the
\* C offset, so the four bytes are mem[off+1] .. mem[off+4].  The offsets 1
\* and 5 are not word-aligned; the load is the one of hosts that perform
\* such loads (x86, ARMv6 and later, MIPS Linux, whose kernel emulates them).
LoadU32(mem, off, h) ==
  UNION { {8 * (IF h = "little" THEN k ELSE 3 - k) + j : j \in BitsOfByte(mem[off + 1 + k])}
          : k \in 0..3 }

\* htonl as the identity on every host
htonl_Identity(x, h) == x

\* htonl: swaps the four bytes on a little-endian host, the identity on a
\* big-endian one
htonl(x, h) ==
  IF h = "little" THEN {8 * (3 - (i \div 8)) + (i % 8) : i \in x} ELSE x

---------------------------------------------------------------------------
(* Inputs: what the environment can hand to the program *)

Backends == {"sysfs", "wiimote", "airos"}

\* how many LED directories /sys/class/leds holds besides "." and ".."
LedCounts == {0, 1, 3, 32, 33}

\* what the max_brightness file of the first LED can hold; the files of the
\* other LEDs hold 255
MaxBrightnessValues == {1, 255}

\* <<mask, values>> as they travel, four bytes each, most significant first
CommandWords ==
  { << <<0, 0, 0, 1>>,         <<0, 0, 0, 1>> >>,          \* LED 0 on
    << <<0, 0, 0, 2>>,         <<0, 0, 0, 2>> >>,          \* LED 1 on
    << <<0, 0, 0, 1>>,         <<0, 0, 0, 0>> >>,          \* LED 0 off
    << <<0, 0, 0, 0>>,         <<0, 0, 0, 1>> >>,          \* nothing addressed, values bit 0 set
    << <<255, 255, 255, 255>>, <<255, 255, 255, 255>> >>,  \* everything on
    << <<128, 0, 1, 16>>,      <<128, 0, 0, 17>> >> }      \* LEDs 31 and 4 on, LED 8 off,
                                                           \* values bit 0 set, not addressed

AllOnes == <<255, 255, 255, 255>>

\* the datagrams a client may send: well-formed ones, one with version 2,
\* one of 8 bytes and one of 10 bytes
Datagrams ==
  { <<PROTOCOL_VERSION>> \o c[1] \o c[2] : c \in CommandWords }
  \cup { <<2>> \o AllOnes \o AllOnes }
  \cup { <<PROTOCOL_VERSION>> \o AllOnes \o <<255, 255, 255>> }
  \cup { <<PROTOCOL_VERSION>> \o <<0, 0, 0, 2>> \o <<0, 0, 0, 2>> \o <<7>> }

\* what one recv call can meet: an error (len -1) or a datagram
RecvOutcomes ==
  { [len |-> -1, bytes |-> <<>>] } \cup { [len |-> Len(d), bytes |-> d] : d \in Datagrams }

---------------------------------------------------------------------------
(* Process start and exit *)

Init ==
  /\ backend \in Backends
  /\ host \in {"little", "big"}
  /\ pc = (IF backend = "sysfs" THEN "chdir" ELSE IF backend = "wiimote" THEN "args" ELSE "open")
  /\ exit_status = "none"
  /\ setup_failed = "none"
  /\ stderr = <<>>
  /\ lednames = <<>>
  /\ led = 0
  /\ entries = <<>>
  /\ entries_count = 0
  /\ entries_found = 0
  /\ leds = {}
  /\ closed = {}
  /\ delivered = <<>>
  /\ handled = <<>>
  /\ writes = <<>>

\* main returns 1; err is stderr after the message printed on the way
Return1(err) ==
  /\ pc' = "exited"
  /\ exit_status' = "1"
  /\ stderr' = err

\* a failed assert: abort()
Abort ==
  /\ pc' = "aborted"
  /\ exit_status' = "SIGABRT"

---------------------------------------------------------------------------
(* server.h: the socket *)

SocketOutcomes == {"bound", "getaddrinfo", "nobind"}

\* initialize_socket without the failure returns
initialize_socket_NeverFails(outcome) == 3

\* __initialize_socket: the socket (any descriptor but -1), or -1 when
\* getaddrinfo fails or no address can be bound.  outcome is what the system
\* calls meet.
initialize_socket(outcome) ==
  IF outcome = "bound" THEN 3 ELSE -1

\* start_ledp_server up to the loop: returns 1 when there is no socket (and
\* main then returns 1), otherwise enters the loop.  err is stderr so far.
start_ledp_server(outcome, err) ==
  IF initialize_socket(outcome) = -1
    THEN Return1(Append(err, IF outcome = "getaddrinfo" THEN "Couldn't get address to bind to."
                                                            ELSE "Couldn't bind socket"))
    ELSE /\ pc' = "serve"
         /\ stderr' = err
         /\ UNCHANGED exit_status

\* setup_failed after the socket calls met outcome
SocketFailure(outcome) == IF outcome = "bound" THEN setup_failed ELSE "socket"

---------------------------------------------------------------------------
(* sysfs-leds.c: main *)

MaxEntries == 32

sysfs_data == <<lednames, led, entries, entries_count, entries_found>>
logs == <<delivered, handled, writes>>

\* chdir("/sys/class/leds")
sysfs_chdir ==
  /\ backend = "sysfs" /\ pc = "chdir"
  /\ \E ok \in BOOLEAN :
       /\ setup_failed' = (IF ok THEN setup_failed ELSE "chdir")
       /\ IF ok THEN /\ pc' = "scandir"
                     /\ UNCHANGED <<exit_status, stderr>>
                ELSE Return1(Append(stderr, "Couldn't enter /sys/class/leds directory."))
  /\ UNCHANGED <<backend, host, closed, sysfs_data, leds, logs>>

\* scandir(".", &lednames, NULL, alphasort): ".", ".." and the LED directories
sysfs_scandir ==
  /\ backend = "sysfs" /\ pc = "scandir"
  /\ \E n \in LedCounts \cup {-1} :
       /\ setup_failed' = (IF n >= 0 THEN setup_failed ELSE "scandir")
       /\ IF n >= 0
            THEN /\ lednames' = <<".", "..">> \o [k \in 1..n |-> "led"]
                 /\ pc' = "calloc"
                 /\ UNCHANGED <<exit_status, stderr>>
            ELSE /\ Return1(Append(stderr, "Failed to scan /sys/class/leds for LEDs"))
                 /\ UNCHANGED lednames
  /\ UNCHANGED <<backend, host, closed, led, entries, entries_count, entries_found, leds, logs>>

\* data.entries_count = data.entries_found = 0; calloc(lednames_count, ...)
sysfs_calloc ==
  /\ backend = "sysfs" /\ pc = "calloc"
  /\ entries_count' = 0 /\ entries_found' = 0
  /\ \E ok \in BOOLEAN :
       /\ setup_failed' = (IF ok THEN setup_failed ELSE "calloc")
       /\ IF ok THEN /\ pc' = "process"
                     /\ entries' = <<>>
                     /\ led' = 0
                     /\ UNCHANGED <<exit_status, stderr>>
                ELSE /\ Return1(Append(stderr, "Couldn't allocate space for LED entries"))
                     /\ UNCHANGED <<entries, led>>
  /\ UNCHANGED <<backend, host, closed, lednames, leds, logs>>

\* what fopen/fscanf/open meet for one LED directory
LedOutcomes == {"ok", "nofile", "noscan", "noopen"}

\* the values LED number k's max_brightness file may hold
MaxBrightnessOf(k) == IF k = 0 THEN MaxBrightnessValues ELSE {255}

\* process_led's return value: 1 when the 32 entries are taken or when a
\* file of the LED cannot be opened or scanned, else 0
process_led_status(count, outcome) ==
  IF count >= MaxEntries THEN 1
  ELSE IF outcome = "ok" THEN 0 ELSE 1

\* the message process_led prints, if any
process_led_message(count, outcome) ==
  IF count >= MaxEntries THEN <<>>
  ELSE IF outcome = "nofile" THEN <<"Couldn't open max_brightness for reading">>
  ELSE IF outcome = "noscan" THEN <<"Couldn't scan max brightness of LED">>
  ELSE IF outcome = "noopen" THEN <<"Couldn't open brightness for writing">>
  ELSE <<>>

\* the descriptor open() returns for LED number k's brightness file: 0..2 are
\* taken, and every LED before it holds two (max_brightness is never closed)
BrightnessFd(k) == 4 + 2 * k

\* the entry process_led leaves in data.entries[count]: calloc's zeroes,
\* overwritten as far as the function got
process_led_entry(count, outcome, mb) ==
  [ max_brightness |-> IF outcome \in {"ok", "noopen"} THEN mb ELSE 0,
    brightness_fd  |-> IF outcome = "ok" THEN BrightnessFd(count)
                       ELSE IF outcome = "noopen" THEN -1 ELSE 0 ]

\* one turn of main's loop over lednames: "." and ".." are skipped, any
\* other entry goes through process_led, and main returns 1 on its status
sysfs_process ==
  /\ backend = "sysfs" /\ pc = "process"
  /\ led < Len(lednames)
  /\ IF lednames[led + 1] \in {".", ".."}
       THEN /\ led' = led + 1
            /\ UNCHANGED <<pc, exit_status, setup_failed, stderr,
                           entries, entries_count, entries_found>>
       ELSE \E outcome \in LedOutcomes, mb \in MaxBrightnessOf(entries_count) :
              /\ entries_found' = entries_found + 1
              /\ IF entries_count >= MaxEntries
                   THEN UNCHANGED <<entries, entries_count>>
                   ELSE /\ entries_count' = entries_count + 1
                        /\ entries' = Append(entries, process_led_entry(entries_count, outcome, mb))
              /\ setup_failed' = (IF entries_count < MaxEntries /\ outcome # "ok"
                                     THEN outcome ELSE setup_failed)
              /\ IF process_led_status(entries_count, outcome) # 0
                   THEN /\ Return1(stderr \o process_led_message(entries_count, outcome))
                        /\ UNCHANGED led
                   ELSE /\ led' = led + 1
                        /\ UNCHANGED <<pc, exit_status, stderr>>
  /\ UNCHANGED <<backend, host, closed, lednames, leds, logs>>

\* after the loop: the warning when LEDs were left out, then start_ledp_server
sysfs_start ==
  /\ backend = "sysfs" /\ pc = "process"
  /\ led = Len(lednames)
  /\ \E outcome \in SocketOutcomes :
       /\ setup_failed' = SocketFailure(outcome)
       /\ start_ledp_server(outcome,
                            IF entries_found > entries_count
                              THEN Append(stderr, "Warning: LEDs found. Serving the first.")
                              ELSE stderr)
  /\ UNCHANGED <<backend, host, closed, sysfs_data, leds, logs>>

---------------------------------------------------------------------------
(* wiimote.c: main *)

\* argument parsing: too many arguments, a bad address or a bad port end in
\* print_help, which returns 1
wiimote_args ==
  /\ backend = "wiimote" /\ pc = "args"
  /\ \E ok \in BOOLEAN :
       /\ setup_failed' = (IF ok THEN setup_failed ELSE "args")
       /\ IF ok THEN /\ pc' = "connect"
                     /\ UNCHANGED <<exit_status, stderr>>
                ELSE Return1(Append(stderr, "Usage: [<bdaddr> [<port>]]"))
  /\ UNCHANGED <<backend, host, closed, sysfs_data, leds, logs>>

\* cwiid_open, then data.leds = 0 and start_ledp_server
wiimote_connect ==
  /\ backend = "wiimote" /\ pc = "connect"
  /\ \E connected \in BOOLEAN :
       IF connected
         THEN /\ leds' = {}
              /\ \E outcome \in SocketOutcomes :
                   /\ setup_failed' = SocketFailure(outcome)
                   /\ start_ledp_server(outcome, stderr)
         ELSE /\ setup_failed' = "cwiid_open"
              /\ Return1(Append(stderr, "Couldn't connect to your beloved Wiimote. I'm sorry."))
              /\ UNCHANGED leds
  /\ UNCHANGED <<backend, host, closed, sysfs_data, logs>>

---------------------------------------------------------------------------
(* airos.c: main *)

\* open("/proc/gpio/system_led", O_WRONLY); assert(data.control_fd != -1);
\* then start_ledp_server
airos_open ==
  /\ backend = "airos" /\ pc = "open"
  /\ \E control_fd \in {-1, 3} :
       IF control_fd # -1
         THEN \E outcome \in SocketOutcomes :
                /\ setup_failed' = SocketFailure(outcome)
                /\ start_ledp_server(outcome, stderr)
         ELSE /\ Abort
              /\ setup_failed' = "open"
              /\ UNCHANGED stderr
  /\ UNCHANGED <<backend, host, closed, sysfs_data, leds, logs>>

---------------------------------------------------------------------------
(* Text: what sprintf produces, as a sequence of characters *)

Digit(d) == <<"0", "1", "2", "3", "4", "5", "6", "7", "8", "9">>[d + 1]

RECURSIVE Decimal(_)
\* "%u" / "%d" of n
Decimal(n) ==
  IF n < 0 THEN <<"-">> \o Decimal(-n)
  ELSE IF n < 10 THEN <<Digit(n)>>
  ELSE Decimal(n \div 10) \o <<Digit(n % 10)>>

---------------------------------------------------------------------------
(* What a write() call can meet.  A fault is [at, kind]: the write for index *)
(* `at` fails (returns -1) or is short (returns one byte less); every other  *)
(* write returns the length asked for.                                       *)

NoFault == [at |-> -1, kind |-> "none"]

Faults(indices) == {NoFault} \cup [at : indices, kind : {"error", "short"}]

WriteReturn(fault, index, length) ==
  IF fault.at # index THEN length
  ELSE IF fault.kind = "error" \/ length = 0 THEN -1
  ELSE length - 1

\* WriteAsserted checking only for the error return
WriteAsserted_ErrorsOnly(written, length) == written # -1

\* assert(written == length)
WriteAsserted(written, length) == written = length

---------------------------------------------------------------------------
(* sysfs-leds.c: handle_message *)

\* an index counts as addressed when its mask bit or its values bit is set
Addressed_OrValues(i, packet) == i \in (packet.mask \cup packet.values)

\* an index counts as addressed only when it is to be turned on
Addressed_OnlyOn(i, packet) == i \in (packet.mask \cap packet.values)

\* packet->mask & (1 << i): the handler's loop goes on to the next index
\* when this is zero (the same test in sysfs-leds.c and airos.c)
Addressed(i, packet) == i \in packet.mask

\* the value written is the brightness 255, whatever the LED's own maximum
sysfs_value_Always255(entry, on) == IF on THEN 255 ELSE 0

\* (packet->values & (1 << led)) ? entry->max_brightness : 0
sysfs_value(entry, on) == IF on THEN entry.max_brightness ELSE 0

RECURSIVE sysfs_loop(_, _, _, _, _)
\* the loop of handle_message from index l on: the writes it makes, in order.
\* It ends at the first write whose assert fails (the process aborts there).
\* (1 << led) is the word with bit led alone, also for led = 31, where the
\* int 1 << 31 converts to 0x80000000 against the uint32_t mask.
sysfs_loop(l, ents, count, packet, fault) ==
  IF ~(l < count) THEN <<>>
  ELSE IF ~Addressed(l, packet) THEN sysfs_loop(l + 1, ents, count, packet, fault)
  ELSE LET entry   == ents[l + 1]
           value   == sysfs_value(entry, l \in packet.values)
           line    == Decimal(value) \o <<"\n">>
           written == WriteReturn(fault, l, Len(line))
           w       == [fd |-> entry.brightness_fd, data |-> line, written |-> written]
       IN  IF WriteAsserted(written, Len(line))
             THEN <<w>> \o sysfs_loop(l + 1, ents, count, packet, fault)
             ELSE <<w>>

sysfs_handle_message(ents, count, packet, fault) == sysfs_loop(0, ents, count, packet, fault)

---------------------------------------------------------------------------
(* wiimote.c: handle_message *)

led_flags == <<"CWIID_LED1_ON", "CWIID_LED2_ON", "CWIID_LED3_ON", "CWIID_LED4_ON">>

\* wiimote_update without the clearing of the addressed bits
wiimote_update_NoClear(shadow, packet) == shadow \cup packet.values

\* data->leds &= ~packet->mask; data->leds |= packet->values;
\* the shadow with the values bits flipped instead of set
wiimote_update_Toggles(shadow, packet) ==
  ((shadow \ packet.mask) \ packet.values) \cup (packet.values \ shadow)

wiimote_update(shadow, packet) == (shadow \ packet.mask) \cup packet.values

\* wiimote_flags with the loop started at i = 1
wiimote_flags_SkipsFirst(shadow) == {led_flags[i + 1] : i \in {j \in 1..3 : j \in shadow}}

\* the flags handed to cwiid_set_led: led_flags[i] for every i < 4 whose bit
\* is set in data->leds (the flags are distinct bits, so | is set union)
wiimote_flags(shadow) == {led_flags[i + 1] : i \in {j \in 0..3 : j \in shadow}}

---------------------------------------------------------------------------
(* airos.c: handle_message *)

\* sizeof commands: char commands [7*32]
CommandsSize == 7 * 32

\* the second value field is always 0
airos_line_SecondZero(i, value) ==
  Decimal(i) \o <<" ">> \o Decimal(value) \o <<" ">> \o Decimal(0) \o <<"\n">>

\* the fields are separated by two spaces
airos_line_Wide(i, value) ==
  Decimal(i) \o <<" ", " ">> \o Decimal(value) \o <<" ", " ">> \o Decimal(value) \o <<"\n">>

\* the characters sprintf(.., "%u %d %d\n", i, value, value) stores before
\* its terminating NUL
airos_line(i, value) ==
  Decimal(i) \o <<" ">> \o Decimal(value) \o <<" ">> \o Decimal(value) \o <<"\n">>

RECURSIVE airos_loop(_, _)
\* the commands buffer after the loop from index i on ((1 << i) as in
\* sysfs_loop)
airos_loop(i, packet) ==
  IF ~(i < 32) THEN <<>>
  ELSE IF ~Addressed(i, packet) THEN airos_loop(i + 1, packet)
  ELSE LET value == IF i \in packet.values THEN 1 ELSE 0
       IN  airos_line(i, value) \o airos_loop(i + 1, packet)

\* the one write of handle_message
airos_handle_message(packet, fault) ==
  LET commands == airos_loop(0, packet)
  IN  <<[fd |-> 3, data |-> commands, written |-> WriteReturn(fault, 0, Len(commands))]>>

---------------------------------------------------------------------------
(* server.h: the loop of start_ledp_server *)

Min(a, b) == IF a < b THEN a ELSE b

\* recv_return as if recv reported the datagram's full length
recv_return_FullLength(r) == IF r.len < 0 THEN -1 ELSE r.len

\* recv(sock, &received, 9, 0): -1 on an error, else the number of bytes
\* copied, which is the datagram's length or 9 if it is longer (the rest of
\* the datagram is dropped by the socket)
recv_return(r) == IF r.len < 0 THEN -1 ELSE Min(r.len, 9)

\* the bytes recv leaves in `received`
recv_buffer(r) == SubSeq(r.bytes, 1, Min(r.len, 9))

\* the loop goes on to the version check only if recv(...) != 9 is false
LengthOk(n) == n = 9

\* VersionOk with the test loosened to accept later versions
VersionOk_AcceptsNewer(version) == version >= PROTOCOL_VERSION

\* the loop goes on to the handler only if
\* packet.protocol_version != PROTOCOL_VERSION is false
VersionOk(version) == version = PROTOCOL_VERSION

\* the packet built from the 9 received bytes
decode(received, h) ==
  [ protocol_version |-> received[1],
    mask             |-> htonl(LoadU32(received, 1, h), h),
    values           |-> htonl(LoadU32(received, 5, h), h) ]

\* the call record the model keeps of handler(opaque, &packet): the packet,
\* which recv it came from, the shadow register around it and whether the
\* handler returned
Call(packet, shadow_after, returned) ==
  [ packet |-> packet, at |-> Len(delivered) + 1,
    before |-> leds, after |-> shadow_after, completed |-> returned ]

\* the writes ws of the handler call now made, numbered with that call
Tag(ws) ==
  [ k \in 1..Len(ws) |->
      [ call |-> Len(handled) + 1, fd |-> ws[k].fd, data |-> ws[k].data,
        written |-> ws[k].written ] ]

Receiving == pc = "serve" /\ Len(delivered) < MaxDatagrams

\* the loop ends when recv reports an error
loop_test_StopsOnError(n) == n # -1

\* while (1): the test of the loop, which does not look at what the recv of
\* the turn before returned (n)
loop_test(n) == TRUE

\* what the process holds open while serving
Handles == {"sock", "device"}

\* the end of a turn of the loop, by continue or after the handler: back to
\* the test, and to recv if it holds.  After the loop start_ledp_server
\* closes the socket and returns 1 if close fails, else 0; main returns 1 on
\* a status of 1, and otherwise releases the backend's handles (the
\* brightness files, the wiimote, the control file) and returns 0.
LoopBack(n) ==
  IF loop_test(n)
    THEN UNCHANGED <<pc, exit_status, closed>>
    ELSE \E status \in {0, -1} :
           /\ pc' = "exited"
           /\ exit_status' = (IF status # 0 THEN "1" ELSE "0")
           /\ closed' = (IF status # 0 THEN closed ELSE Handles)

setup_vars == <<backend, host, setup_failed, sysfs_data>>

\* recv(...) != 9: continue
recv_discard ==
  /\ Receiving
  /\ \E r \in RecvOutcomes :
       /\ ~LengthOk(recv_return(r))
       /\ delivered' = Append(delivered, r)
       /\ LoopBack(recv_return(r))
  /\ UNCHANGED <<setup_vars, stderr, leds, handled, writes>>

\* packet.protocol_version != PROTOCOL_VERSION: continue
version_discard ==
  /\ Receiving
  /\ \E r \in RecvOutcomes :
       /\ LengthOk(recv_return(r))
       /\ ~VersionOk(recv_buffer(r)[1])
       /\ delivered' = Append(delivered, r)
       /\ LoopBack(recv_return(r))
  /\ UNCHANGED <<setup_vars, stderr, leds, handled, writes>>

\* a turn of the loop that reaches handler(opaque, &packet), sysfs-leds
dispatch_sysfs ==
  /\ Receiving /\ backend = "sysfs"
  /\ \E r \in RecvOutcomes :
       /\ LengthOk(recv_return(r))
       /\ VersionOk(recv_buffer(r)[1])
       /\ \E packet \in {decode(recv_buffer(r), host)}, fault \in Faults(0..(entries_count - 1)) :
            \E ws \in {sysfs_handle_message(entries, entries_count, packet, fault)} :
              LET returned == \A k \in 1..Len(ws) : WriteAsserted(ws[k].written, Len(ws[k].data))
              IN  /\ delivered' = Append(delivered, r)
                  /\ handled' = Append(handled, Call(packet, leds, returned))
                  /\ writes' = writes \o Tag(ws)
                  /\ IF returned THEN LoopBack(recv_return(r))
                                  ELSE Abort /\ UNCHANGED closed
  /\ UNCHANGED <<setup_vars, stderr, leds>>

\* a turn of the loop that reaches handler(opaque, &packet), airos
dispatch_airos ==
  /\ Receiving /\ backend = "airos"
  /\ \E r \in RecvOutcomes :
       /\ LengthOk(recv_return(r))
       /\ VersionOk(recv_buffer(r)[1])
       /\ \E packet \in {decode(recv_buffer(r), host)}, fault \in Faults({0}) :
            \E ws \in {airos_handle_message(packet, fault)} :
              LET returned == WriteAsserted(ws[1].written, Len(ws[1].data))
              IN  /\ delivered' = Append(delivered, r)
                  /\ handled' = Append(handled, Call(packet, leds, returned))
                  /\ writes' = writes \o Tag(ws)
                  /\ IF returned THEN LoopBack(recv_return(r))
                                  ELSE Abort /\ UNCHANGED closed
  /\ UNCHANGED <<setup_vars, stderr, leds>>

\* a turn of the loop that reaches handler(opaque, &packet), wiimote:
\* cwiid_set_led returns ret, and a nonzero ret is only reported
dispatch_wiimote ==
  /\ Receiving /\ backend = "wiimote"
  /\ \E r \in RecvOutcomes :
       /\ LengthOk(recv_return(r))
       /\ VersionOk(recv_buffer(r)[1])
       /\ \E packet \in {decode(recv_buffer(r), host)}, ret \in {0, -1} :
            \E shadow \in {wiimote_update(leds, packet)} :
              /\ delivered' = Append(delivered, r)
              /\ leds' = shadow
              /\ handled' = Append(handled, Call(packet, shadow, TRUE))
              /\ writes' = Append(writes, [call |-> Len(handled) + 1,
                                           flags |-> wiimote_flags(shadow), ret |-> ret])
              /\ stderr' = IF ret # 0 THEN Append(stderr, "Couldn't send command to Wiimote")
                                      ELSE stderr
              /\ LoopBack(recv_return(r))
  /\ UNCHANGED setup_vars

---------------------------------------------------------------------------

Next ==
  \/ sysfs_chdir
  \/ sysfs_scandir
  \/ sysfs_calloc
  \/ sysfs_process
  \/ sysfs_start
  \/ wiimote_args
  \/ wiimote_connect
  \/ airos_open
  \/ recv_discard
  \/ version_discard
  \/ dispatch_sysfs
  \/ dispatch_airos
  \/ dispatch_wiimote

Spec == Init /\ [][Next]_vars

---------------------------------------------------------------------------
(* Properties *)

Calls == 1..Len(handled)

\* the recv outcome that handler call k came from
Source(k) == delivered[handled[k].at]

\* the LEDs of the wiimote
WiimoteLeds == 0..3

---------------------------------------------------------------------------
\* C1: wiimote, masking.  Every handle_message call leaves the shadow bit of
\* every LED i in 0..3 whose mask bit is 0 as it was, whatever bit i of
\* values is, and so the flag sent for LED i is the one of the shadow before.
C1_ShadowMasked ==
  backend = "wiimote" =>
    \A k \in Calls : \A i \in WiimoteLeds :
      i \notin handled[k].packet.mask =>
        /\ (i \in handled[k].after) = (i \in handled[k].before)
        /\ (led_flags[i + 1] \in writes[k].flags) = (i \in handled[k].before)

---------------------------------------------------------------------------
\* C2: datagram length.  The handler is only ever called for a datagram of
\* exactly 9 bytes: a shorter or longer one causes no call (and so no LED
\* change), and a longer one is not decoded from its first 9 bytes.
C2_OnlyNineByteDatagramsHandled ==
  \A k \in Calls : Source(k).len = 9

---------------------------------------------------------------------------
\* C3: version.  The handler is only ever called with protocol_version 1,
\* taken from byte 0 of the datagram; a turn of the loop that receives 9
\* bytes whose byte 0 is not 1 calls no handler and changes no LED state.
C3_HandledVersionIsOne ==
  \A k \in Calls :
    /\ handled[k].packet.protocol_version = 1
    /\ Source(k).bytes[1] = 1

\* the last recv returned a 9-byte datagram with another version
LastIsBadVersion(d) ==
  /\ d # <<>>
  /\ d[Len(d)].len = 9
  /\ d[Len(d)].bytes[1] # 1

C3_BadVersionChangesNothing ==
  (delivered' # delivered /\ LastIsBadVersion(delivered'))
    => UNCHANGED <<handled, writes, leds, pc, exit_status>>

C3_VersionRejection ==
  /\ []C3_HandledVersionIsOne
  /\ [][C3_BadVersionChangesNothing]_vars

\* a version-2 datagram was dropped and a version-1 datagram handled
C3_Witness ==
  /\ Len(delivered) = 2
  /\ delivered[1].len = 9 /\ delivered[1].bytes[1] = 2
  /\ Len(handled) = 1 /\ handled[1].at = 2

---------------------------------------------------------------------------
(* The state of the devices, read back from what was written to them *)

\* the data of the last complete write to descriptor fd, <<>> if none
LastData(fd) ==
  LET ks == {k \in 1..Len(writes) : writes[k].fd = fd /\ writes[k].written = Len(writes[k].data)}
  IN  IF ks = {} THEN <<>> ELSE writes[CHOOSE k \in ks : \A j \in ks : j <= k].data

\* sysfs: the brightness file of LED i holds the text of v
SysfsBrightnessIs(i, v) == LastData(entries[i + 1].brightness_fd) = Decimal(v) \o <<"\n">>

RECURSIVE Split(_, _)
\* the pieces of the text t between the separators sep (the piece after the
\* last separator is kept only if it is not empty)
Split(t, sep) ==
  IF t = <<>> THEN <<>>
  ELSE LET ends == {k \in 1..Len(t) : t[k] = sep}
       IN  IF ends = {} THEN <<t>>
           ELSE LET e == CHOOSE k \in ends : \A j \in ends : k <= j
                IN  <<SubSeq(t, 1, e - 1)>> \o Split(SubSeq(t, e + 1, Len(t)), sep)

\* airos: every line the control file has received, in order, as its fields
AirosLines ==
  LET RECURSIVE From(_)
      From(k) == IF k > Len(writes) THEN <<>>
                 ELSE (IF writes[k].written = Len(writes[k].data)
                         THEN Split(writes[k].data, "\n") ELSE <<>>) \o From(k + 1)
      lines == From(1)
  IN  [n \in 1..Len(lines) |-> Split(lines[n], " ")]

\* airos: the two value fields of the last line naming pin i, <<>> if none
AirosPin(lines, i) ==
  LET ns == {n \in 1..Len(lines) : lines[n][1] = Decimal(i)}
  IN  IF ns = {} THEN <<>>
      ELSE LET l == lines[CHOOSE n \in ns : \A m \in ns : m <= n] IN <<l[2], l[3]>>

\* the logical LEDs the running backend maps to a resource
Mapped ==
  IF backend = "sysfs" THEN 0..(entries_count - 1)
  ELSE IF backend = "wiimote" THEN WiimoteLeds
  ELSE Bits32

\* LED i is in the state `on`, as far as the backend's device can tell
LedStateIs(i, on) ==
  IF backend = "sysfs" THEN SysfsBrightnessIs(i, IF on THEN entries[i + 1].max_brightness ELSE 0)
  ELSE IF backend = "wiimote" THEN (i \in leds) = on
  ELSE AirosPin(AirosLines, i) = (IF on THEN <<(<<"1">>), (<<"1">>)>> ELSE <<(<<"0">>), (<<"0">>)>>)

---------------------------------------------------------------------------
\* C4: last write wins.  In every backend, once command A and then command B
\* have been applied, both addressing the mapped LED i, LED i is in the state
\* that bit i of B.values gives, whatever A asked for.
C4_LastWriteWins ==
  LET n == Len(handled) IN
    (n >= 2 /\ handled[n].completed) =>
      \A i \in Mapped :
        (i \in handled[n - 1].packet.mask /\ i \in handled[n].packet.mask)
          => LedStateIs(i, i \in handled[n].packet.values)

\* A turned LED 0 on, B turned it off, on a sysfs directory with LEDs
C4_Witness ==
  /\ backend = "sysfs" /\ entries_count >= 1
  /\ Len(handled) = 2 /\ handled[2].completed
  /\ 0 \in handled[1].packet.mask /\ 0 \in handled[1].packet.values
  /\ 0 \in handled[2].packet.mask /\ 0 \notin handled[2].packet.values

---------------------------------------------------------------------------
\* C5: arrival order.  The packets handed to the handler are exactly the
\* accepted datagrams (recv gave 9 bytes, byte 0 is 1), in the order recv
\* returned them, and a handler call is over before the next recv: only the
\* last call can be unfinished, and then nothing was received after it.

\* the datagram the socket delivered at position k is one the loop accepts
Accepted(k) == delivered[k].len >= 9 /\ delivered[k].bytes[1] = 1

C5_ArrivalOrder ==
  /\ \A k \in Calls : handled[k].at \in 1..Len(delivered)
  /\ \A j, k \in Calls : j < k => handled[j].at < handled[k].at
  /\ {handled[k].at : k \in Calls} = {k \in 1..Len(delivered) : Accepted(k)}
  /\ \A k \in Calls :
       /\ handled[k].packet.protocol_version = Source(k).bytes[1]
       /\ \A j \in 0..3 :
            /\ {b \in 0..7 : (8 * (3 - j) + b) \in handled[k].packet.mask} = BitsOfByte(Source(k).bytes[2 + j])
            /\ {b \in 0..7 : (8 * (3 - j) + b) \in handled[k].packet.values} = BitsOfByte(Source(k).bytes[6 + j])
  /\ \A j, k \in 1..Len(writes) : j < k => writes[j].call <= writes[k].call
  /\ \A k \in Calls :
       ~handled[k].completed => (k = Len(handled) /\ handled[k].at = Len(delivered))

\* a datagram was dropped and a later one handled, with a device write
C5_Witness ==
  /\ Len(delivered) >= 2 /\ Len(handled) >= 1
  /\ ~Accepted(1)
  /\ handled[Len(handled)].at = Len(delivered)
  /\ Len(writes) >= 1

---------------------------------------------------------------------------
\* C6: wiimote, one combined write.  Every handle_message call makes exactly
\* one cwiid_set_led call, whose flags have LED k+1 on exactly when bit k of
\* the shadow register after the update is set (k in 0..3).
C6_OneCombinedWrite ==
  backend = "wiimote" =>
    /\ Len(writes) = Len(handled)
    /\ \A k \in Calls :
         /\ writes[k].call = k
         /\ \A j \in WiimoteLeds : (led_flags[j + 1] \in writes[k].flags) = (j \in handled[k].after)
         /\ writes[k].flags \subseteq {led_flags[j + 1] : j \in WiimoteLeds}
    /\ (handled # <<>> => handled[Len(handled)].after = leds)

\* from all-off, LED 0 on and then LED 1 on: two writes, the second with both
C6_Witness ==
  /\ backend = "wiimote"
  /\ Len(handled) = 2 /\ Len(writes) = 2
  /\ handled[1].before = {}
  /\ handled[1].packet.mask = {0} /\ handled[1].packet.values = {0}
  /\ handled[2].packet.mask = {1} /\ handled[2].packet.values = {1}
  /\ writes[1].flags = {"CWIID_LED1_ON"}
  /\ writes[2].flags = {"CWIID_LED1_ON", "CWIID_LED2_ON"}

---------------------------------------------------------------------------
\* C7: sysfs, more than 32 LEDs.  When /sys/class/leds holds more than 32
\* LED entries and no setup call fails, the process does not exit: it keeps
\* the first 32, warns and goes on to serve.
C7_ExcessLedsNotFatal ==
  (backend = "sysfs" /\ Len(lednames) - 2 > MaxEntries /\ setup_failed = "none")
    => /\ pc # "exited"
       /\ entries_count <= MaxEntries

---------------------------------------------------------------------------
\* C8: wiimote, write failure.  When cwiid_set_led fails during a command the
\* process goes on serving, the shadow register holds the state the command
\* asks for (addressed LEDs as values says, the others as before), and every
\* later call whose write succeeds sends the flags of the whole shadow
\* register (bits 0..3).
C8_WriteFailureTolerated ==
  backend = "wiimote" =>
    \A k \in Calls :
      writes[k].ret # 0 =>
        /\ pc = "serve" /\ exit_status = "none"
        /\ handled[k].completed
        /\ \A i \in WiimoteLeds :
             (i \in handled[k].after) =
               (IF i \in handled[k].packet.mask THEN i \in handled[k].packet.values
                                                ELSE i \in handled[k].before)
        /\ \A n \in Calls :
             (n > k /\ writes[n].ret = 0) =>
               \A i \in WiimoteLeds : (led_flags[i + 1] \in writes[n].flags) = (i \in handled[n].after)

---------------------------------------------------------------------------
\* C9: sysfs and airos, fatal write failure.  A write of handle_message that
\* fails or is short aborts the process there: it is the last write ever
\* made, its call is the last call, and nothing is received after it.
C9_FailedWriteAborts ==
  backend \in {"sysfs", "airos"} =>
    \A k \in 1..Len(writes) :
      writes[k].written # Len(writes[k].data) =>
        /\ pc = "aborted" /\ exit_status = "SIGABRT"
        /\ k = Len(writes)
        /\ writes[k].call = Len(handled)
        /\ ~handled[Len(handled)].completed
        /\ handled[Len(handled)].at = Len(delivered)

\* sysfs: the write for LED 0 was short, and LED 1, addressed by the same
\* command, was never written
C9_Witness ==
  /\ backend = "sysfs" /\ entries_count >= 2
  /\ Len(handled) = 1 /\ {0, 1} \subseteq handled[1].packet.mask
  /\ Len(writes) = 1
  /\ writes[1].fd = entries[1].brightness_fd
  /\ writes[1].written = Len(writes[1].data) - 1
  /\ pc = "aborted"

---------------------------------------------------------------------------
\* C10: fatal setup failure.  Once a setup call has failed (chdir, scandir,
\* calloc, a max_brightness or brightness file, the arguments, cwiid_open,
\* the control file, the socket), the process is over with a failure status
\* and nothing was ever received, handled or written.
C10_SetupFailureIsFatal ==
  setup_failed # "none" =>
    /\ pc \in {"exited", "aborted"}
    /\ exit_status \in {"1", "SIGABRT"}
    /\ delivered = <<>> /\ handled = <<>> /\ writes = <<>>

\* sysfs: three LEDs were set up and then the socket could not be bound
C10_Witness ==
  /\ backend = "sysfs" /\ entries_count = 3
  /\ setup_failed = "socket"
  /\ pc = "exited" /\ exit_status = "1"

---------------------------------------------------------------------------
\* C11: big-endian decode.  For every handled datagram b (9 bytes received,
\* b[0] = 1), on little-endian and big-endian hosts alike, the packet's mask
\* is b[1]*2^24 + b[2]*2^16 + b[3]*2^8 + b[4] and its values is
\* b[5]*2^24 + b[6]*2^16 + b[7]*2^8 + b[8]: the base-256 digits of mask,
\* most significant first, are the bytes 1..4, and those of values the
\* bytes 5..8.

\* the base-256 digit j of the word w (digit 0 is the least significant)
ByteOfWord(w, j) ==
  LET RECURSIVE Sum(_)
      Sum(b) == IF b > 7 THEN 0 ELSE (IF (8 * j + b) \in w THEN 2^b ELSE 0) + Sum(b + 1)
  IN  Sum(0)

\* the word w in network byte order: most significant byte first
NetworkOrder(w) == <<ByteOfWord(w, 3), ByteOfWord(w, 2), ByteOfWord(w, 1), ByteOfWord(w, 0)>>

C11_BigEndianDecode ==
  \A k \in Calls :
    LET b == Source(k).bytes
        p == handled[k].packet
    IN  /\ p.mask \subseteq Bits32 /\ p.values \subseteq Bits32
        /\ NetworkOrder(p.mask) = <<b[2], b[3], b[4], b[5]>>
        /\ NetworkOrder(p.values) = <<b[6], b[7], b[8], b[9]>>

\* a datagram whose words read differently in the two byte orders was
\* handled on a little-endian host
C11_Witness ==
  /\ host = "little"
  /\ \E k \in Calls :
       /\ SubSeq(Source(k).bytes, 2, 5) = <<128, 0, 1, 16>>
       /\ handled[k].packet.mask = {31, 8, 4}

---------------------------------------------------------------------------
\* C12: idempotence.  In every backend, when the same command is handled
\* twice in a row and both calls return, the LED state after the second call
\* (the wiimote's shadow register and the flags last sent, the text last
\* written to each sysfs brightness file, the line last written for each
\* airos pin) is the state after the first call.

\* the device writes made by the handler calls 1..c
WritesUpTo(c) == SelectSeq(writes, LAMBDA w : w.call <= c)

\* the last element of the sequence s that satisfies Test, <<>> if none
LastWhere(s, Test(_)) ==
  LET ks == {k \in 1..Len(s) : Test(s[k])}
  IN  IF ks = {} THEN <<>> ELSE <<s[CHOOSE k \in ks : \A j \in ks : j <= k]>>

\* every line in the payloads of ws that were written in full, as its fields
LinesOf(ws) ==
  LET RECURSIVE From(_)
      From(k) == IF k > Len(ws) THEN <<>>
                 ELSE (IF ws[k].written = Len(ws[k].data)
                         THEN Split(ws[k].data, "\n") ELSE <<>>) \o From(k + 1)
      lines == From(1)
  IN  [n \in 1..Len(lines) |-> Split(lines[n], " ")]

\* what the device holds for each mapped LED once the calls 1..c are over
DeviceState(c) ==
  LET ws == WritesUpTo(c) IN
    IF backend = "wiimote"
      THEN [shadow |-> handled[c].after, sent |-> LastWhere(ws, LAMBDA w : TRUE)]
    ELSE IF backend = "sysfs"
      THEN [i \in Mapped |->
              LET last == LastWhere(ws, LAMBDA w : w.fd = entries[i + 1].brightness_fd
                                                     /\ w.written = Len(w.data))
              IN  IF last = <<>> THEN <<>> ELSE last[1].data]
    ELSE LET lines == LinesOf(ws)
         IN  [i \in Mapped |-> LastWhere(lines, LAMBDA l : l[1] = Decimal(i))]

C12_Idempotent ==
  \A k \in Calls :
    (/\ k >= 2
     /\ handled[k].packet = handled[k - 1].packet
     /\ handled[k].completed /\ handled[k - 1].completed)
      => LET once  == DeviceState(k - 1)
             twice == DeviceState(k)
         IN  IF backend = "wiimote"
               THEN /\ twice.shadow = once.shadow
                    /\ twice.sent # <<>> /\ once.sent # <<>>
                    /\ twice.sent[1].flags = once.sent[1].flags
               ELSE twice = once

\* the wiimote handled the command that turns LED 0 on twice in a row
C12_Witness ==
  /\ backend = "wiimote" /\ Len(handled) = 2
  /\ handled[1].packet = handled[2].packet
  /\ handled[1].completed /\ handled[2].completed
  /\ handled[2].packet.mask = {0} /\ handled[2].packet.values = {0}
  /\ Len(writes) = 2 /\ writes[1].call = 1 /\ writes[2].call = 2

---------------------------------------------------------------------------
\* C13: sysfs and airos, masking.  A handler call writes to the brightness
\* file of LED i only if bit i of its mask is set, and puts a line for pin i
\* in its payload only if bit i of its mask is set, whatever the values bits
\* are: the command mask = 1, values = 1 gives output for LED 0 only.

\* the fields of the lines of the text t
FieldsOf(t) == LET lines == Split(t, "\n") IN [n \in 1..Len(lines) |-> Split(lines[n], " ")]

\* the indices whose decimal text is the first field of a line of t
PinsOf(t) == LET ls == FieldsOf(t) IN {i \in Bits32 : \E n \in 1..Len(ls) : ls[n][1] = Decimal(i)}

\* the writes of handler call k
WritesOf(k) == SelectSeq(writes, LAMBDA w : w.call = k)

\* the LEDs whose brightness file handler call k wrote to
SysfsLedsOf(k) ==
  LET ws == WritesOf(k)
  IN  {i \in Mapped : \E n \in 1..Len(ws) : ws[n].fd = entries[i + 1].brightness_fd}

C13_OnlyAddressedWritten ==
  /\ backend = "sysfs" =>
       /\ \A n \in 1..Len(writes) :
            \E i \in Mapped \cap handled[writes[n].call].packet.mask :
              writes[n].fd = entries[i + 1].brightness_fd
       /\ \A k \in Calls :
            (handled[k].packet.mask = {0} /\ handled[k].packet.values = {0})
              => SysfsLedsOf(k) \subseteq {0}
  /\ backend = "airos" =>
       /\ \A n \in 1..Len(writes) :
            LET ls == FieldsOf(writes[n].data)
            IN  \A m \in 1..Len(ls) :
                  \E i \in handled[writes[n].call].packet.mask : ls[m][1] = Decimal(i)
       /\ \A k \in Calls :
            (handled[k].packet.mask = {0} /\ handled[k].packet.values = {0})
              => WritesOf(k)[1].data = <<"0", " ", "1", " ", "1", "\n">>

\* a call whose values bit 0 is set and mask bit 0 clear wrote for the LEDs
\* 4, 8 and 31 and not for LED 0, which the backend maps
C13_Witness ==
  \E k \in Calls :
    /\ handled[k].completed
    /\ handled[k].packet.mask = {4, 8, 31} /\ 0 \in handled[k].packet.values
    /\ \/ backend = "sysfs" /\ entries_count = 32 /\ SysfsLedsOf(k) = {4, 8, 31}
       \/ backend = "airos" /\ PinsOf(WritesOf(k)[1].data) = {4, 8, 31}

---------------------------------------------------------------------------
\* C14: airos, batching.  Every handler call makes exactly one write, to the
\* control file, and its payload is one line "<i> <v> <v>" ended by a newline
\* for each index i of 0..31 whose mask bit is set, in ascending order of i,
\* where both fields v are the bit i of values (0 or 1), and nothing else.

\* how many members of S are below i
Rank(i, S) == Cardinality({j \in S : j < i})

C14_OneBatchedWrite ==
  backend = "airos" =>
    \A k \in Calls :
      LET ws == WritesOf(k)
          p  == handled[k].packet
      IN  /\ Len(ws) = 1
          /\ ws[1].fd = 3
          /\ LET t  == ws[1].data
                 ls == FieldsOf(t)
             IN  /\ t # <<>> => t[Len(t)] = "\n"
                 /\ Len(ls) = Cardinality(p.mask)
                 /\ \A i \in p.mask :
                      LET v == IF i \in p.values THEN <<"1">> ELSE <<"0">>
                      IN  ls[Rank(i, p.mask) + 1] = <<Decimal(i), v, v>>

\* a call addressing all 32 pins wrote its 32 lines in one write, and a call
\* addressing pins 4, 8 and 31 turned pin 8 off in its second line
C14_Witness ==
  /\ backend = "airos"
  /\ \E k \in Calls :
       /\ handled[k].completed /\ handled[k].packet.mask = Bits32
       /\ Len(FieldsOf(WritesOf(k)[1].data)) = 32
  /\ \E k \in Calls :
       /\ handled[k].completed /\ handled[k].packet.mask = {4, 8, 31}
       /\ FieldsOf(WritesOf(k)[1].data)[2] = <<(<<"8">>), (<<"0">>), (<<"0">>)>>

---------------------------------------------------------------------------
\* C15: unmapped indices are ignored.  In the sysfs backend (entries_count
\* mapped LEDs) and the wiimote backend (4 mapped LEDs), a handler call whose
\* mask has bits only at indices the backend does not map leaves every mapped
\* LED in the state it had, and in sysfs makes no write at all.
C15_UnmappedIgnored ==
  backend \in {"sysfs", "wiimote"} =>
    \A k \in Calls :
      (handled[k].packet.mask # {} /\ handled[k].packet.mask \cap Mapped = {}) =>
        /\ backend = "sysfs" => WritesOf(k) = <<>>
        /\ backend = "wiimote" =>
             /\ handled[k].after \cap Mapped = handled[k].before \cap Mapped
             /\ \A i \in Mapped :
                  (led_flags[i + 1] \in WritesOf(k)[1].flags) = (i \in handled[k].before)

---------------------------------------------------------------------------
\* C16: writes only for changed LEDs.  As claimed: in sysfs and airos a
\* handler call writes to the brightness file of LED i, or puts a line for
\* pin i in its payload, only if bit i of the mask is set and the state asked
\* for differs from the state last applied to i; a command that changes
\* nothing makes no brightness write and no line.

\* the LEDs that handler call k wrote a value or a line for
WrittenBy(k) ==
  IF backend = "sysfs" THEN SysfsLedsOf(k)
  ELSE IF WritesOf(k) = <<>> THEN {} ELSE PinsOf(WritesOf(k)[1].data)

\* what DeviceState holds for LED i once `on` has been applied to it
Applied(i, on) ==
  IF backend = "sysfs"
    THEN Decimal(IF on THEN entries[i + 1].max_brightness ELSE 0) \o <<"\n">>
    ELSE << <<Decimal(i), Decimal(IF on THEN 1 ELSE 0), Decimal(IF on THEN 1 ELSE 0)>> >>

C16_OnlyChangedWritten ==
  backend \in {"sysfs", "airos"} =>
    \A k \in Calls :
      \A i \in WrittenBy(k) :
        /\ i \in handled[k].packet.mask
        /\ DeviceState(k - 1)[i] # Applied(i, i \in handled[k].packet.values)

\* C16, amended: in sysfs and airos a handler call that returns has written
\* to the brightness file of exactly the mapped LEDs whose mask bit is set,
\* or put a line for exactly the pins whose mask bit is set, whether or not
\* the state asked for differs from the state last applied; a command sent
\* again repeats the writes of the first time.
C16_EveryAddressedWritten ==
  backend \in {"sysfs", "airos"} =>
    \A k \in Calls :
      /\ handled[k].completed => WrittenBy(k) = handled[k].packet.mask \cap Mapped
      /\ (/\ k >= 2
          /\ handled[k].packet = handled[k - 1].packet
          /\ handled[k].completed /\ handled[k - 1].completed)
           => [n \in 1..Len(WritesOf(k)) |-> <<WritesOf(k)[n].fd, WritesOf(k)[n].data>>]
                = [n \in 1..Len(WritesOf(k - 1)) |-> <<WritesOf(k - 1)[n].fd, WritesOf(k - 1)[n].data>>]

\* the command that turns LED 0 on was handled twice in a row, and the second
\* call wrote for LED 0 the state LED 0 already had
C16_Witness ==
  /\ backend \in {"sysfs", "airos"} /\ 0 \in Mapped
  /\ Len(handled) = 2 /\ handled[1].completed /\ handled[2].completed
  /\ handled[1].packet = handled[2].packet
  /\ handled[2].packet.mask = {0} /\ handled[2].packet.values = {0}
  /\ DeviceState(1)[0] = Applied(0, TRUE)
  /\ WrittenBy(2) = {0}

---------------------------------------------------------------------------
\* C17: sysfs, written value.  A handler call that returns has made, for
\* every mapped LED i whose mask bit is set, exactly one write to LED i's
\* brightness file, and its text is the decimal of the max_brightness read
\* for LED i at setup if bit i of values is set and of 0 if not; no call
\* makes any other write, so mask = values = 0xFFFFFFFF writes its own
\* max_brightness to every mapped LED.

\* Each write of a call is to the brightness file of an addressed mapped
\* LED, no file is written twice in a call, and a call that returns has made
\* as many writes as it addresses mapped LEDs: exactly one for each.
C17_SysfsWrittenValue ==
  backend = "sysfs" =>
    \A k \in Calls :
      \A ws \in {WritesOf(k)}, p \in {handled[k].packet} :
        \A targets \in {Mapped \cap p.mask} :
          /\ \A n \in 1..Len(ws) :
               \E i \in targets :
                 /\ ws[n].fd = entries[i + 1].brightness_fd
                 /\ ws[n].data =
                      Decimal(IF i \in p.values THEN entries[i + 1].max_brightness ELSE 0) \o <<"\n">>
          /\ \A m, n \in 1..Len(ws) : m < n => ws[m].fd # ws[n].fd
          /\ handled[k].completed =>
               /\ Len(ws) = Cardinality(targets)
               /\ (p.mask = Bits32 /\ p.values = Bits32) =>
                    /\ Len(ws) = entries_count
                    /\ \A i \in Mapped : ws[i + 1].data = Decimal(entries[i + 1].max_brightness) \o <<"\n">>

\* 32 LEDs are mapped, LED 0 with max_brightness 1 and LED 1 with 255, and the
\* command that turns everything on has written "1" to LED 0 and "255" to
\* LED 1
C17_Witness ==
  /\ backend = "sysfs" /\ entries_count = 32
  /\ entries[1].max_brightness = 1 /\ entries[2].max_brightness = 255
  /\ \E k \in Calls :
       /\ handled[k].completed
       /\ handled[k].packet.mask = Bits32 /\ handled[k].packet.values = Bits32
       /\ Len(WritesOf(k)) = 32
       /\ WritesOf(k)[1].data = <<"1", "\n">>
       /\ WritesOf(k)[2].data = <<"2", "5", "5", "\n">>

---------------------------------------------------------------------------
\* C18: the loop never exits.  Once the socket is bound, every turn of the
\* loop (recv error, datagram of another length, wrong version, handled
\* command whose handler returns) leaves the process serving, with the socket
\* and the backend's handles open; the only way out of the loop is the abort
\* of a failed write assertion.  main therefore never returns 0, and returns
\* at all only from its setup (1, before anything is received).

\* one step of a serving process
C18_TurnKeepsServing ==
  pc = "serve" =>
    /\ closed = {} /\ closed' = {}
    /\ delivered' = Append(delivered, delivered'[Len(delivered')])
    /\ pc' \in {"serve", "aborted"}
    /\ pc' = "serve" => exit_status' = "none"
    /\ pc' = "aborted" =>
         /\ backend \in {"sysfs", "airos"}
         /\ Len(handled') = Len(handled) + 1
         /\ ~handled'[Len(handled')].completed

C18_NeverReturnsFromLoop ==
  /\ closed = {}
  /\ exit_status # "0"
  /\ pc = "exited" => (exit_status = "1" /\ delivered = <<>> /\ handled = <<>>)
  /\ delivered # <<>> => pc \in {"serve", "aborted"}

C18_LoopNeverExits ==
  /\ []C18_NeverReturnsFromLoop
  /\ [][C18_TurnKeepsServing]_vars

\* recv has failed, a command has then been handled, and the process is
\* still serving with everything open
C18_Witness ==
  /\ pc = "serve" /\ closed = {} /\ Len(delivered) = MaxDatagrams
  /\ delivered[1].len = -1
  /\ Len(handled) >= 1 /\ handled[Len(handled)].completed
  /\ handled[Len(handled)].at = Len(delivered)

---------------------------------------------------------------------------
\* C19: airos, buffer bound.  Whatever mask and values are, the characters
\* the sprintf calls of handle_message store in commands, the NUL after the
\* last line included, stay within its 7*32 = 224 bytes, and commands_length
\* at the write is at most 224: the longest payload, all 32 pins addressed,
\* is 10 lines of 6 and 22 lines of 7 characters.

\* the bytes of commands that the sprintf calls that built t have stored:
\* every line and, after the last one, its NUL
StoredBytes(t) == IF t = <<>> THEN 0 ELSE Len(t) + 1

C19_CommandsFit ==
  backend = "airos" =>
    \A n \in 1..Len(writes) :
      LET t == writes[n].data
          p == handled[writes[n].call].packet
      IN  /\ Len(t) <= CommandsSize
          /\ StoredBytes(t) <= CommandsSize
          /\ Len(t) = 6 * Cardinality(p.mask \cap 0..9) + 7 * Cardinality(p.mask \cap 10..31)
          /\ p.mask = Bits32 => Len(t) = 214

\* all 32 pins were addressed and the payload took 214 characters
C19_Witness ==
  /\ backend = "airos"
  /\ \E n \in 1..Len(writes) :
       /\ handled[writes[n].call].packet.mask = Bits32
       /\ Len(writes[n].data) = 214
       /\ StoredBytes(writes[n].data) = 215

====
